---- MODULE Spec2Model ----
(***************************************************************************)
(* The two tutorial notebooks of tutorials/simplicial/sca_cmps_train.ipynb *)
(* (SCA-CMPS and DHGCN) as one state machine.  A run executes the code     *)
(* cells of one notebook top to bottom; the loops inside a cell advance    *)
(* one iteration (or one statement of the training body) per step.         *)
(*                                                                         *)
(* Array elements are records that carry the position `src` the element    *)
(* had in the loaded dataset: it stands for the identity of the Python     *)
(* object, so that "belongs to the same sample" can be stated.  Matrices,  *)
(* tensors, predictions and losses produced by the external libraries are  *)
(* symbolic records naming the call and its arguments.                     *)
(***************************************************************************)
EXTENDS Integers, Sequences, FiniteSets, TLC

\* ---------------------------------------------------------------- bounds
MaxSamples == 6

\* ------------------------------------------------------- program constants
test_size_pct == 20
num_epochs == 5
test_interval == 1

Labels == {0, 1}
None == [kind |-> "None"]

VARIABLES
    notebook, pc,
    shrec,
    x_0s, x_1s, x_2s, ys, complexes,
    sc_i,
    laplacian_down_1_list, laplacian_down_2_list,
    incidence1_t_list, incidence2_t_list,
    hg_list, incidence_1_list,
    channels,
    x_0_train, x_0_test, y_train, y_test,
    sca_train, sca_test,
    model, opt, loss_fn,
    epoch_i, epoch_loss, zip_i, x_0, y, y_hat, loss, grad,
    output,
    calls, ops,
    started, finished

dataVars == <<x_0s, x_1s, x_2s, ys, complexes>>
listVars == <<laplacian_down_1_list, laplacian_down_2_list,
              incidence1_t_list, incidence2_t_list, hg_list, incidence_1_list>>
splitVars == <<x_0_train, x_0_test, y_train, y_test, sca_train, sca_test>>
netVars == <<channels, model, opt, loss_fn>>
loopVars == <<epoch_i, epoch_loss, zip_i, x_0, y, y_hat, loss, grad, output>>
logVars == <<calls, ops>>
stageVars == <<started, finished>>
vars == <<notebook, pc, shrec, dataVars, sc_i, listVars, splitVars, netVars,
          loopVars, logVars, stageVars>>

\* ------------------------------------------------------------ the dataset
\* One element of a per-sample array; src is the mesh it describes.
Sample(key, i) == [kind |-> key, src |-> i]

LabelOf(i, c) == [kind |-> "label", src |-> i, val |-> c]

\* What datasets.mesh.shrec_16(size="small") hands back: one entry per mesh
\* under each key, entry i of every key describing mesh i.
Datasets ==
    UNION { { [node_feat |-> [i \in 1..n |-> Sample("node_feat", i)],
               edge_feat |-> [i \in 1..n |-> Sample("edge_feat", i)],
               face_feat |-> [i \in 1..n |-> Sample("face_feat", i)],
               label     |-> [i \in 1..n |-> LabelOf(i, cs[i])],
               complexes |-> [i \in 1..n |-> Sample("complex", i)]] :
              cs \in [1..n -> Labels] } : n \in 2..MaxSamples }

\* np.array(value): a new array holding the elements of value in order.
NpArray(value) == [i \in 1..Len(value) |-> value[i]]

\* ------------------------------------------------------- the code cells
SCACells == <<"load", "derive", "channels", "split", "model">>

\* DHGCN with the split cell moved in front of the model cell.
DHGCNCellsSplitFirst ==
    <<"load", "derive", "split", "model", "optimizer", "loop">>

DHGCNCells == <<"load", "derive", "model", "optimizer", "split", "loop">>

Cells == IF notebook = "sca_cmps" THEN SCACells ELSE DHGCNCells

\* The cell that runs after cell c, "done" after the last one.
After(c) ==
    LET k == CHOOSE j \in 1..Len(Cells) : Cells[j] = c
    IN  IF k < Len(Cells) THEN Cells[k + 1] ELSE "done"

Begin(stage) == started' = Append(started, stage)

End(stage) == finished' = Append(finished, stage)

Init ==
    /\ notebook \in {"sca_cmps", "dhgcn"}
    /\ pc = "load"
    /\ shrec \in Datasets
    /\ x_0s = <<>> /\ x_1s = <<>> /\ x_2s = <<>> /\ ys = <<>> /\ complexes = <<>>
    /\ sc_i = 0
    /\ laplacian_down_1_list = <<>> /\ laplacian_down_2_list = <<>>
    /\ incidence1_t_list = <<>> /\ incidence2_t_list = <<>>
    /\ hg_list = <<>> /\ incidence_1_list = <<>>
    /\ channels = None
    /\ x_0_train = <<>> /\ x_0_test = <<>> /\ y_train = <<>> /\ y_test = <<>>
    /\ sca_train = None /\ sca_test = None
    /\ model = None /\ opt = None /\ loss_fn = None
    /\ epoch_i = 0 /\ epoch_loss = <<>> /\ zip_i = 0
    /\ x_0 = None /\ y = None /\ y_hat = None /\ loss = None
    /\ grad = <<>>
    /\ output = <<>>
    /\ calls = [zero_grad |-> 0, forward |-> 0, backward |-> 0, step |-> 0,
                test_forward |-> 0]
    /\ ops = <<>>
    /\ started = <<>> /\ finished = <<>>

\* ------------------------------------------------------ (1) dataset load
Load ==
    /\ pc = "load"
    /\ x_0s' = NpArray(shrec.node_feat)
    /\ x_1s' = NpArray(shrec.edge_feat)
    /\ x_2s' = NpArray(shrec.face_feat)
    /\ ys' = NpArray(shrec.label)
    /\ complexes' = NpArray(shrec.complexes)
    /\ pc' = After("load")
    /\ Begin("load") /\ End("load")
    /\ UNCHANGED <<notebook, shrec, sc_i, listVars, splitVars, netVars,
                   loopVars, logVars>>

\* ------------------------------------- (2) per-sample neighborhood matrices
down_laplacian_matrix(sc, r) ==
    [kind |-> "down_laplacian", rank |-> r, of |-> sc.src, signed |-> TRUE,
     transposed |-> FALSE, layout |-> "scipy"]

incidence_matrix(sc, r, sgn) ==
    [kind |-> "incidence", rank |-> r, of |-> sc.src, signed |-> sgn,
     transposed |-> FALSE, layout |-> "scipy"]

Transpose(m) == [m EXCEPT !.transposed = ~@]

\* torch.from_numpy(m.todense()).to_sparse()
ToSparseTensor(m) == [m EXCEPT !.layout = "torch_sparse"]

to_hypergraph(sc) == [kind |-> "hypergraph", of |-> sc.src]

\* insert(0, m) in place of append(m)
ListPrepend(list, m) == <<m>> \o list

ListAppend(list, m) == Append(list, m)

\* The list initialisations that open the derivation cell of either notebook.
DeriveBegin ==
    /\ pc = "derive"
    /\ laplacian_down_1_list' = <<>> /\ laplacian_down_2_list' = <<>>
    /\ incidence1_t_list' = <<>> /\ incidence2_t_list' = <<>>
    /\ hg_list' = <<>> /\ incidence_1_list' = <<>>
    /\ sc_i' = 0
    /\ pc' = "derive_loop"
    /\ Begin("derive")
    /\ UNCHANGED <<notebook, shrec, dataVars, splitVars, netVars, loopVars,
                   logVars, finished>>

\* One iteration of "for sc in scs" (SCA-CMPS).
SCADeriveStep ==
    /\ pc = "derive_loop" /\ notebook = "sca_cmps"
    /\ sc_i < Len(complexes)
    /\ LET sc == complexes[sc_i + 1]
           laplacian_down_1 == ToSparseTensor(down_laplacian_matrix(sc, 1))
           laplacian_down_2 == ToSparseTensor(down_laplacian_matrix(sc, 2))
           incidence_1_t == ToSparseTensor(Transpose(incidence_matrix(sc, 1, TRUE)))
           incidence_2_t == ToSparseTensor(Transpose(incidence_matrix(sc, 2, TRUE)))
       IN  /\ laplacian_down_1_list' = ListAppend(laplacian_down_1_list, laplacian_down_1)
           /\ laplacian_down_2_list' = ListAppend(laplacian_down_2_list, laplacian_down_2)
           /\ incidence1_t_list' = ListAppend(incidence1_t_list, incidence_1_t)
           /\ incidence2_t_list' = ListAppend(incidence2_t_list, incidence_2_t)
    /\ sc_i' = sc_i + 1
    /\ UNCHANGED <<notebook, pc, shrec, dataVars, hg_list, incidence_1_list,
                   splitVars, netVars, loopVars, logVars, stageVars>>

\* One iteration of "for simplex in simplexes" (DHGCN).
DHGCNDeriveStep ==
    /\ pc = "derive_loop" /\ notebook = "dhgcn"
    /\ sc_i < Len(complexes)
    /\ LET simplex == complexes[sc_i + 1]
           incidence_1 == ToSparseTensor(incidence_matrix(simplex, 1, FALSE))
           hg == to_hypergraph(simplex)
       IN  /\ incidence_1_list' = ListAppend(incidence_1_list, incidence_1)
           /\ hg_list' = ListAppend(hg_list, hg)
    /\ sc_i' = sc_i + 1
    /\ UNCHANGED <<notebook, pc, shrec, dataVars, laplacian_down_1_list,
                   laplacian_down_2_list, incidence1_t_list, incidence2_t_list,
                   splitVars, netVars, loopVars, logVars, stageVars>>

\* The for loop is exhausted: the derivation cell is over.
DeriveEnd ==
    /\ pc = "derive_loop"
    /\ sc_i >= Len(complexes)
    /\ pc' = After("derive")
    /\ End("derive")
    /\ UNCHANGED <<notebook, shrec, dataVars, sc_i, listVars, splitVars,
                   netVars, loopVars, logVars, started>>

\* ------------------------------------------------ SCA-CMPS channel sizes
\* a.shape[-1]
LastDim(a) == [dim_of |-> a.kind]

ChannelsCell ==
    /\ pc = "channels"
    /\ channels' = [channels_list |-> <<LastDim(x_0s[1]), LastDim(x_1s[1]), LastDim(x_2s[1])>>,
                    complex_dim |-> 3]
    /\ pc' = After("channels")
    /\ UNCHANGED <<notebook, shrec, dataVars, sc_i, listVars, splitVars,
                   model, opt, loss_fn, loopVars, logVars, stageVars>>

\* --------------------------------------------------- (3) train/test split
\* sklearn's sizes for a float test_size and no train_size:
\* n_test = ceil(test_size * n_samples), n_train = n_samples - n_test.
\* (ceil of the floating-point product 0.2 * n equals the exact ceiling of
\* n / 5 for every n up to 200000, the dataset's 100 included.)
\* floor in place of ceil
n_test_floor(n) == (test_size_pct * n) \div 100

n_test(n) == (test_size_pct * n + 99) \div 100

n_train(n) == n - n_test(n)

\* train_test_split(arr, test_size=test_size, shuffle=False): the pair
\* <<train, test>>, train the first n_train entries and test the rest.
train_test_split(arr) ==
    <<SubSeq(arr, 1, n_train(Len(arr))),
      SubSeq(arr, n_train(Len(arr)) + 1, n_train(Len(arr)) + n_test(Len(arr)))>>

SCASplit ==
    /\ pc = "split" /\ notebook = "sca_cmps"
    /\ x_0_train' = train_test_split(x_0s)[1]
    /\ x_0_test' = train_test_split(x_0s)[2]
    /\ sca_train' = [x_1 |-> train_test_split(x_1s)[1],
                     x_2 |-> train_test_split(x_2s)[1],
                     laplacian_down_1 |-> train_test_split(laplacian_down_1_list)[1],
                     laplacian_down_2 |-> train_test_split(laplacian_down_2_list)[1],
                     incidence1_t |-> train_test_split(incidence1_t_list)[1],
                     incidence2_t |-> train_test_split(incidence2_t_list)[1]]
    /\ sca_test' = [x_1 |-> train_test_split(x_1s)[2],
                    x_2 |-> train_test_split(x_2s)[2],
                    laplacian_down_1 |-> train_test_split(laplacian_down_1_list)[2],
                    laplacian_down_2 |-> train_test_split(laplacian_down_2_list)[2],
                    incidence1_t |-> train_test_split(incidence1_t_list)[2],
                    incidence2_t |-> train_test_split(incidence2_t_list)[2]]
    /\ y_train' = train_test_split(ys)[1]
    /\ y_test' = train_test_split(ys)[2]
    /\ pc' = After("split")
    /\ Begin("split") /\ End("split")
    /\ UNCHANGED <<notebook, shrec, dataVars, sc_i, listVars, netVars,
                   loopVars, logVars>>

DHGCNSplit ==
    /\ pc = "split" /\ notebook = "dhgcn"
    /\ x_0_train' = train_test_split(x_0s)[1]
    /\ x_0_test' = train_test_split(x_0s)[2]
    /\ y_train' = train_test_split(ys)[1]
    /\ y_test' = train_test_split(ys)[2]
    /\ pc' = After("split")
    /\ Begin("split") /\ End("split")
    /\ UNCHANGED <<notebook, shrec, dataVars, sc_i, listVars, sca_train,
                   sca_test, netVars, loopVars, logVars>>

\* ------------------------------------------------- (4) model construction
Adam(m) == [kind |-> "Adam", steps |-> 0]

MSELoss == [kind |-> "MSELoss"]

\* SCA-CMPS: model, optimizer and loss in one cell, the last of the notebook.
SCAModel ==
    /\ pc = "model" /\ notebook = "sca_cmps"
    /\ model' = [kind |-> "SCACMPS", channels |-> channels.channels_list,
                 complex_dim |-> channels.complex_dim, params |-> <<>>,
                 training |-> TRUE]
    /\ opt' = Adam(model')
    /\ loss_fn' = MSELoss
    /\ pc' = After("model")
    /\ Begin("model") /\ End("model")
    /\ UNCHANGED <<notebook, shrec, dataVars, sc_i, listVars, splitVars,
                   channels, loopVars, logVars>>

\* DHGCN: the model cell ...
DHGCNModel ==
    /\ pc = "model" /\ notebook = "dhgcn"
    /\ channels' = [channels_edge |-> LastDim(x_1s[1]), channels_node |-> LastDim(x_0s[1])]
    /\ model' = [kind |-> "DHGCN", channels |-> channels'.channels_node,
                 params |-> <<>>, training |-> TRUE]
    /\ pc' = After("model")
    /\ Begin("model")
    /\ UNCHANGED <<notebook, shrec, dataVars, sc_i, listVars, splitVars,
                   opt, loss_fn, loopVars, logVars, finished>>

\* ... and the loss and optimizer cell.
DHGCNOptimizer ==
    /\ pc = "optimizer"
    /\ loss_fn' = MSELoss
    /\ opt' = Adam(model)
    /\ pc' = After("optimizer")
    /\ End("model")
    /\ UNCHANGED <<notebook, shrec, dataVars, sc_i, listVars, splitVars,
                   channels, model, loopVars, logVars, started>>

\* ------------------------------------------------------- (5) epoch loop
Min(a, b) == IF a <= b THEN a ELSE b

\* torch.tensor(a).float().to(device): a new tensor holding a's data.
TorchTensor(a) == [kind |-> "tensor", dtype |-> "float", data |-> a]

\* model(x): DHGCN's forward takes the node features only.
Forward(m, x, grad_enabled) ==
    [kind |-> "y_hat", input |-> x, incidence |-> None,
     version |-> Len(m.params), requires_grad |-> grad_enabled]

\* loss_fn(y_hat, y)
LossOf(pred, target) == [kind |-> "loss", pred |-> pred, target |-> target]

\* The sample whose loss a backward pass differentiates.
GradOf(l) == l.pred.input.data.src

\* loss.item()
Item(l) == [sample |-> l.pred.input.data.src, target |-> l.target.data.val,
            version |-> l.pred.version]

Count(op) == calls' = [calls EXCEPT ![op] = @ + 1]

\* a test pass every second epoch only
TestDueEven(e) == e % 2 = 0

\* if epoch_i % test_interval == 0
TestDue(e) == e % test_interval = 0

\* for epoch_i in range(1, num_epochs + 1): the first value, or none.
LoopEnter ==
    /\ pc = "loop"
    /\ IF 1 < num_epochs + 1
         THEN epoch_i' = 1 /\ pc' = "epoch_begin" /\ UNCHANGED finished
         ELSE epoch_i' = epoch_i /\ pc' = "done" /\ End("loop")
    /\ Begin("loop")
    /\ UNCHANGED <<notebook, shrec, dataVars, sc_i, listVars, splitVars,
                   netVars, epoch_loss, zip_i, x_0, y, y_hat, loss, grad,
                   output, logVars>>

\* epoch_loss = []; model.train(); the zip over the training set is opened.
EpochBegin ==
    /\ pc = "epoch_begin"
    /\ epoch_loss' = <<>>
    /\ model' = [model EXCEPT !.training = TRUE]
    /\ zip_i' = 0
    /\ pc' = "train_next"
    /\ UNCHANGED <<notebook, shrec, dataVars, sc_i, listVars, splitVars,
                   channels, opt, loss_fn, epoch_i, x_0, y, y_hat, loss, grad,
                   output, logVars, stageVars>>

\* The training loop taking its samples off the front of the training arrays.
TrainNextConsuming ==
    /\ pc = "train_next"
    /\ IF zip_i < Min(Len(x_0_train), Len(y_train))
         THEN /\ zip_i' = zip_i + 1
              /\ x_0' = TorchTensor(x_0_train[zip_i + 1])
              /\ y' = TorchTensor(y_train[zip_i + 1])
              /\ x_0_train' = [x_0_train EXCEPT ![zip_i + 1] = x_0']
              /\ ops' = <<>>
              /\ pc' = "zero_grad"
         ELSE /\ pc' = "epoch_report"
              /\ UNCHANGED <<zip_i, x_0, y, ops, x_0_train>>
    /\ UNCHANGED <<notebook, shrec, dataVars, sc_i, listVars, x_0_test,
                   y_train, y_test, sca_train, sca_test,
                   netVars, epoch_i, epoch_loss, y_hat, loss, grad, output,
                   calls, stageVars>>

\* for x_0, y in zip(x_0_train, y_train): bind the next pair and convert it,
\* or leave the loop when the shorter sequence is exhausted.
TrainNext ==
    /\ pc = "train_next"
    /\ IF zip_i < Min(Len(x_0_train), Len(y_train))
         THEN /\ zip_i' = zip_i + 1
              /\ x_0' = TorchTensor(x_0_train[zip_i + 1])
              /\ y' = TorchTensor(y_train[zip_i + 1])
              /\ ops' = <<>>
              /\ pc' = "zero_grad"
         ELSE /\ pc' = "epoch_report"
              /\ UNCHANGED <<zip_i, x_0, y, ops>>
    /\ UNCHANGED <<notebook, shrec, dataVars, sc_i, listVars, splitVars,
                   netVars, epoch_i, epoch_loss, y_hat, loss, grad, output,
                   calls, stageVars>>

\* The iteration without its opt.zero_grad(): gradients keep accumulating.
ZeroGradMissing ==
    /\ pc = "zero_grad"
    /\ grad' = grad
    /\ Count("zero_grad") /\ ops' = Append(ops, "zero_grad")
    /\ pc' = "train_forward"
    /\ UNCHANGED <<notebook, shrec, dataVars, sc_i, listVars, splitVars,
                   netVars, epoch_i, epoch_loss, zip_i, x_0, y, y_hat, loss,
                   output, stageVars>>

\* opt.zero_grad()
ZeroGrad ==
    /\ pc = "zero_grad"
    /\ grad' = <<>>
    /\ Count("zero_grad") /\ ops' = Append(ops, "zero_grad")
    /\ pc' = "train_forward"
    /\ UNCHANGED <<notebook, shrec, dataVars, sc_i, listVars, splitVars,
                   netVars, epoch_i, epoch_loss, zip_i, x_0, y, y_hat, loss,
                   output, stageVars>>

\* y_hat = model(x_0)
TrainForward ==
    /\ pc = "train_forward"
    /\ y_hat' = Forward(model, x_0, TRUE)
    /\ Count("forward") /\ ops' = Append(ops, "forward")
    /\ pc' = "train_loss"
    /\ UNCHANGED <<notebook, shrec, dataVars, sc_i, listVars, splitVars,
                   netVars, epoch_i, epoch_loss, zip_i, x_0, y, loss, grad,
                   output, stageVars>>

\* loss = loss_fn(y_hat, y)
TrainLoss ==
    /\ pc = "train_loss"
    /\ loss' = LossOf(y_hat, y)
    /\ ops' = Append(ops, "loss")
    /\ pc' = "backward"
    /\ UNCHANGED <<notebook, shrec, dataVars, sc_i, listVars, splitVars,
                   netVars, epoch_i, epoch_loss, zip_i, x_0, y, y_hat, grad,
                   output, calls, stageVars>>

\* loss.backward(): the gradient is added to what .grad already holds.
Backward ==
    /\ pc = "backward"
    /\ grad' = Append(grad, GradOf(loss))
    /\ Count("backward") /\ ops' = Append(ops, "backward")
    /\ pc' = "opt_step"
    /\ UNCHANGED <<notebook, shrec, dataVars, sc_i, listVars, splitVars,
                   netVars, epoch_i, epoch_loss, zip_i, x_0, y, y_hat, loss,
                   output, stageVars>>

\* opt.step(): the parameters move by the accumulated gradient.
OptStep ==
    /\ pc = "opt_step"
    /\ model' = [model EXCEPT !.params = Append(@, grad)]
    /\ opt' = [opt EXCEPT !.steps = @ + 1]
    /\ Count("step") /\ ops' = Append(ops, "step")
    /\ pc' = "append_loss"
    /\ UNCHANGED <<notebook, shrec, dataVars, sc_i, listVars, splitVars,
                   channels, loss_fn, epoch_i, epoch_loss, zip_i, x_0, y,
                   y_hat, loss, grad, output, stageVars>>

\* epoch_loss.append(loss.item())
AppendLoss ==
    /\ pc = "append_loss"
    /\ epoch_loss' = Append(epoch_loss, Item(loss))
    /\ ops' = Append(ops, "record")
    /\ pc' = "train_next"
    /\ UNCHANGED <<notebook, shrec, dataVars, sc_i, listVars, splitVars,
                   netVars, epoch_i, zip_i, x_0, y, y_hat, loss, grad, output,
                   calls, stageVars>>

\* The "Epoch: i loss: mean" line, then the test-interval condition.
EpochReport ==
    /\ pc = "epoch_report"
    /\ output' = Append(output, [line |-> "Epoch", epoch |-> epoch_i,
                                 mean_of |-> Len(epoch_loss)])
    /\ IF TestDue(epoch_i)
         THEN pc' = "test_next" /\ zip_i' = 0
         ELSE pc' = "epoch_end" /\ zip_i' = zip_i
    /\ UNCHANGED <<notebook, shrec, dataVars, sc_i, listVars, splitVars,
                   netVars, epoch_i, epoch_loss, x_0, y, y_hat, loss, grad,
                   logVars, stageVars>>

\* with torch.no_grad(): for x_0, y in zip(x_0_test, y_test)
TestNext ==
    /\ pc = "test_next"
    /\ IF zip_i < Min(Len(x_0_test), Len(y_test))
         THEN /\ zip_i' = zip_i + 1
              /\ x_0' = TorchTensor(x_0_test[zip_i + 1])
              /\ y' = TorchTensor(y_test[zip_i + 1])
              /\ ops' = <<>>
              /\ pc' = "test_forward"
         ELSE /\ pc' = "test_report"
              /\ UNCHANGED <<zip_i, x_0, y, ops>>
    /\ UNCHANGED <<notebook, shrec, dataVars, sc_i, listVars, splitVars,
                   netVars, epoch_i, epoch_loss, y_hat, loss, grad, output,
                   calls, stageVars>>

\* y_hat = model(x_0), gradients disabled
TestForward ==
    /\ pc = "test_forward"
    /\ y_hat' = Forward(model, x_0, FALSE)
    /\ Count("test_forward") /\ ops' = Append(ops, "forward")
    /\ pc' = "test_loss"
    /\ UNCHANGED <<notebook, shrec, dataVars, sc_i, listVars, splitVars,
                   netVars, epoch_i, epoch_loss, zip_i, x_0, y, loss, grad,
                   output, stageVars>>

\* The test loss also appended to epoch_loss.
TestLossRecorded ==
    /\ pc = "test_loss"
    /\ loss' = LossOf(y_hat, y)
    /\ epoch_loss' = Append(epoch_loss, Item(loss'))
    /\ ops' = Append(ops, "loss")
    /\ pc' = "test_next"
    /\ UNCHANGED <<notebook, shrec, dataVars, sc_i, listVars, splitVars,
                   netVars, epoch_i, zip_i, x_0, y, y_hat, grad,
                   output, calls, stageVars>>

\* loss = loss_fn(y_hat, y)
TestLoss ==
    /\ pc = "test_loss"
    /\ loss' = LossOf(y_hat, y)
    /\ ops' = Append(ops, "loss")
    /\ pc' = "test_next"
    /\ UNCHANGED <<notebook, shrec, dataVars, sc_i, listVars, splitVars,
                   netVars, epoch_i, epoch_loss, zip_i, x_0, y, y_hat, grad,
                   output, calls, stageVars>>

\* The "Test_loss: loss" line: the loss of the last sample evaluated.
TestReport ==
    /\ pc = "test_report"
    /\ output' = Append(output, [line |-> "Test_loss", epoch |-> epoch_i,
                                 mean_of |-> 1])
    /\ pc' = "epoch_end"
    /\ UNCHANGED <<notebook, shrec, dataVars, sc_i, listVars, splitVars,
                   netVars, epoch_i, epoch_loss, zip_i, x_0, y, y_hat, loss,
                   grad, logVars, stageVars>>

\* range(1, num_epochs): one epoch short.
EpochEndOneShort ==
    /\ pc = "epoch_end"
    /\ IF epoch_i + 1 < num_epochs
         THEN epoch_i' = epoch_i + 1 /\ pc' = "epoch_begin" /\ UNCHANGED finished
         ELSE epoch_i' = epoch_i /\ pc' = After("loop") /\ End("loop")
    /\ UNCHANGED <<notebook, shrec, dataVars, sc_i, listVars, splitVars,
                   netVars, epoch_loss, zip_i, x_0, y, y_hat, loss, grad,
                   output, logVars, started>>

\* range(1, num_epochs + 1): the next value, or the end of the cell.
EpochEnd ==
    /\ pc = "epoch_end"
    /\ IF epoch_i + 1 < num_epochs + 1
         THEN epoch_i' = epoch_i + 1 /\ pc' = "epoch_begin" /\ UNCHANGED finished
         ELSE epoch_i' = epoch_i /\ pc' = After("loop") /\ End("loop")
    /\ UNCHANGED <<notebook, shrec, dataVars, sc_i, listVars, splitVars,
                   netVars, epoch_loss, zip_i, x_0, y, y_hat, loss, grad,
                   output, logVars, started>>

\* ------------------------------------------------------- specification
Next ==
    \/ Load
    \/ DeriveBegin
    \/ SCADeriveStep
    \/ DHGCNDeriveStep
    \/ DeriveEnd
    \/ ChannelsCell
    \/ SCASplit
    \/ DHGCNSplit
    \/ SCAModel
    \/ DHGCNModel
    \/ DHGCNOptimizer
    \/ LoopEnter
    \/ EpochBegin
    \/ TrainNext
    \/ ZeroGrad
    \/ TrainForward
    \/ TrainLoss
    \/ Backward
    \/ OptStep
    \/ AppendLoss
    \/ EpochReport
    \/ TestNext
    \/ TestForward
    \/ TestLoss
    \/ TestReport
    \/ EpochEnd

Spec == Init /\ [][Next]_vars

\* The interpreter runs the next statement as long as there is one.
FairSpec == Spec /\ WF_vars(Next)

\* ----------------------------------------------------------- properties
Range(q) == { q[i] : i \in 1..Len(q) }

IsPrefix(q, r) == Len(q) <= Len(r) /\ \A i \in 1..Len(q) : q[i] = r[i]

Started(stage) == stage \in Range(started)

Finished(stage) == stage \in Range(finished)

ListedOrder == <<"load", "derive", "split", "model", "loop">>

SCAOrder == <<"load", "derive", "split", "model">>

DHGCNOrder == <<"load", "derive", "model", "split", "loop">>

RunOrder == IF notebook = "sca_cmps" THEN SCAOrder ELSE DHGCNOrder

\* C1 as stated: in both notebooks the stages start in the listed order
\* load, derive, split, model, loop, one after the other has completed, and a
\* finished run has run each of the five once.
C1_ListedStageOrder ==
    /\ IsPrefix(started, ListedOrder)
    /\ IsPrefix(finished, started) /\ Len(started) <= Len(finished) + 1
    /\ pc = "done" => finished = ListedOrder

\* C1 amended: the stages of a notebook start one at a time, each after the
\* previous one completed and none twice, in the order load, derive, split,
\* model for SCA-CMPS (it has no epoch loop) and load, derive, model, split,
\* loop for DHGCN; a finished run has completed exactly these.
C1_StageOrder ==
    /\ IsPrefix(started, RunOrder)
    /\ IsPrefix(finished, started) /\ Len(started) <= Len(finished) + 1
    /\ pc = "done" => finished = RunOrder

C1_Witness == pc = "done" /\ notebook = "dhgcn" /\ finished = DHGCNOrder

EpochLines == SelectSeq(output, LAMBDA l : l.line = "Epoch")

C2_Counts ==
    /\ epoch_i \in 0..num_epochs
    /\ pc = "epoch_report" =>
          /\ calls.forward = epoch_i * Len(x_0_train)
          /\ calls.backward = epoch_i * Len(x_0_train)
          /\ calls.step = epoch_i * Len(x_0_train)
          /\ Len(epoch_loss) = Len(x_0_train)
    /\ Finished("loop") =>
          /\ epoch_i = num_epochs
          /\ calls.forward = num_epochs * Len(x_0_train)
          /\ calls.backward = num_epochs * Len(x_0_train)
          /\ calls.step = num_epochs * Len(x_0_train)
          /\ opt.steps = num_epochs * Len(x_0_train)
          /\ Len(EpochLines) = num_epochs
          /\ \A e \in 1..num_epochs : EpochLines[e].epoch = e

\* C2: the epoch loop, once entered, ends; epoch_i only ever moves up by one,
\* from 1 to num_epochs; at the end of each epoch's training there has been
\* one forward, one backward and one optimizer step per training sample and
\* epoch so far, so the loop ends after num_epochs * |train| optimizer steps.
C2_FixedEpochLoop ==
    /\ []C2_Counts
    /\ [][epoch_i' = epoch_i \/ epoch_i' = epoch_i + 1]_vars
    /\ (Started("loop") ~> Finished("loop"))

C2_Witness ==
    /\ Finished("loop") /\ Len(x_0_train) >= 3
    /\ calls.step = num_epochs * Len(x_0_train)

TrainOrder == <<"zero_grad", "forward", "loss", "backward", "step", "record">>

InTrainBody ==
    pc \in {"zero_grad", "train_forward", "train_loss", "backward", "opt_step",
            "append_loss"}

\* C3: within a training iteration the framework calls come in the order
\* zero_grad, forward, loss, backward, step, record; when the optimizer steps
\* the accumulated gradient is that of the current sample alone, and so every
\* update the parameters ever received is the gradient of exactly one sample,
\* the k-th update that of the k-th sample visited.
C3_TrainingOrder ==
    /\ InTrainBody => IsPrefix(ops, TrainOrder)
    /\ (pc = "train_next" /\ zip_i > 0) => ops = TrainOrder
    /\ pc = "opt_step" => grad = <<x_0.data.src>>
    /\ model # None =>
          \A k \in 1..Len(model.params) :
              model.params[k] = <<x_0_train[((k - 1) % Len(x_0_train)) + 1].src>>

C3_Witness ==
    /\ pc = "append_loss" /\ epoch_i = 2 /\ zip_i = 2
    /\ Len(model.params) = Len(x_0_train) + 2

\* C4: once loaded the dataset arrays never change, once derived the matrix
\* lists never change, and once split the train and test sequences never
\* change, whatever step follows.
C4_Immutable ==
    [][ /\ Finished("load") => dataVars' = dataVars
        /\ Finished("derive") => listVars' = listVars
        /\ Finished("split") => splitVars' = splitVars ]_vars

C4_Witness ==
    /\ pc = "done" /\ Finished("loop")
    /\ calls.step > 0 /\ calls.test_forward > 0
    /\ x_0_train \o x_0_test = x_0s /\ Len(x_0s) = Len(shrec.node_feat)

\* The least k with 5 * k >= n.
CeilFifth(n) == CHOOSE k \in 0..n : 5 * k >= n /\ 5 * (k - 1) < n

IsPositionalSplit(whole, train, test) ==
    /\ train \o test = whole
    /\ Len(test) = CeilFifth(Len(whole))
    /\ \A i \in 1..Len(train) : \A j \in 1..Len(test) : train[i] # test[j]

\* C5: after the split cell every split sequence is cut by position: train
\* followed by test is the original sequence, test has ceil(n / 5) entries,
\* the two share no entry; and 100 samples give 80 train and 20 test.
C5_SplitPartition ==
    /\ n_test(100) = 20 /\ n_train(100) = 80
    /\ Finished("split") =>
          /\ IsPositionalSplit(x_0s, x_0_train, x_0_test)
          /\ IsPositionalSplit(ys, y_train, y_test)
          /\ notebook = "sca_cmps" =>
                /\ IsPositionalSplit(x_1s, sca_train.x_1, sca_test.x_1)
                /\ IsPositionalSplit(x_2s, sca_train.x_2, sca_test.x_2)
                /\ IsPositionalSplit(laplacian_down_1_list,
                                     sca_train.laplacian_down_1, sca_test.laplacian_down_1)
                /\ IsPositionalSplit(laplacian_down_2_list,
                                     sca_train.laplacian_down_2, sca_test.laplacian_down_2)
                /\ IsPositionalSplit(incidence1_t_list,
                                     sca_train.incidence1_t, sca_test.incidence1_t)
                /\ IsPositionalSplit(incidence2_t_list,
                                     sca_train.incidence2_t, sca_test.incidence2_t)

C5_Witness ==
    /\ Finished("split") /\ notebook = "sca_cmps"
    /\ Len(x_0s) = 6 /\ Len(x_0_train) = 4 /\ Len(sca_test.incidence2_t) = 2

\* C6 as stated: every model call of the DHGCN loops is given the incidence
\* matrix derived from the complex of the sample it is called on.
C6_IncidenceUsed ==
    y_hat # None => y_hat.incidence = incidence_1_list[y_hat.input.data.src]

\* C7 as stated: a notebook run that has come to its end has run the epoch
\* loop to completion, with optimizer steps on the training samples and
\* evaluations of the test samples.
C7_EveryNotebookTrains ==
    pc = "done" => Finished("loop") /\ calls.step > 0 /\ calls.test_forward > 0

DerivedFrom(list) ==
    /\ Len(list) = Len(complexes)
    /\ \A i \in 1..Len(list) : list[i].of = complexes[i].src

SameSamples(q, r) ==
    /\ Len(q) = Len(r)
    /\ \A k \in 1..Len(q) : q[k].src = r[k].src

SameMatrices(q, r) ==
    /\ Len(q) = Len(r)
    /\ \A k \in 1..Len(q) : q[k].src = r[k].of

AlignedWith(q, part) ==
    /\ SameSamples(q, part.x_1) /\ SameSamples(q, part.x_2)
    /\ SameMatrices(q, part.laplacian_down_1)
    /\ SameMatrices(q, part.laplacian_down_2)
    /\ SameMatrices(q, part.incidence1_t)
    /\ SameMatrices(q, part.incidence2_t)

\* C8: after the derivation loop every matrix list of the notebook has one
\* entry per complex, entry i derived from complex i; after the split the
\* k-th entries of all train sequences come from one sample, likewise for
\* test; and the pair bound by the training or test loop is one sample's.
C8_IndexAligned ==
    /\ (Finished("derive") /\ notebook = "sca_cmps") =>
          /\ DerivedFrom(laplacian_down_1_list)
          /\ DerivedFrom(laplacian_down_2_list)
          /\ DerivedFrom(incidence1_t_list)
          /\ DerivedFrom(incidence2_t_list)
    /\ (Finished("derive") /\ notebook = "dhgcn") =>
          /\ DerivedFrom(incidence_1_list)
          /\ DerivedFrom(hg_list)
    /\ Finished("split") =>
          /\ SameSamples(x_0_train, y_train)
          /\ SameSamples(x_0_test, y_test)
          /\ notebook = "sca_cmps" =>
                AlignedWith(x_0_train, sca_train) /\ AlignedWith(x_0_test, sca_test)
    /\ x_0 # None => x_0.data.src = y.data.src

C8_Witness ==
    /\ pc = "test_loss" /\ zip_i = 2 /\ epoch_i = 2
    /\ x_0.data.src = Len(x_0s) /\ y.data = ys[Len(ys)]

Lines(out) == [k \in 1..Len(out) |-> <<out[k].line, out[k].epoch>>]

RECURSIVE ExpectedOutput(_)
ExpectedOutput(e) ==
    IF e = 0 THEN <<>>
    ELSE ExpectedOutput(e - 1) \o <<<<"Epoch", e>>>>
         \o (IF e % test_interval = 0 THEN <<<<"Test_loss", e>>>> ELSE <<>>)

InTestPass == pc \in {"test_next", "test_forward", "test_loss", "test_report"}

\* C9: the output is, epoch after epoch, one Epoch line followed by a
\* Test_loss line exactly when epoch_i % test_interval = 0; a test pass runs
\* only in such an epoch, after every training sample of the epoch was
\* processed and the epoch's Epoch line was written.
C9_OutputOrder ==
    /\ IsPrefix(Lines(output), ExpectedOutput(num_epochs))
    /\ Finished("loop") => Lines(output) = ExpectedOutput(num_epochs)
    /\ pc = "epoch_end" => Lines(output) = ExpectedOutput(epoch_i)
    /\ InTestPass =>
          /\ epoch_i % test_interval = 0
          /\ Len(epoch_loss) = Len(x_0_train)
          /\ output[Len(output)] =
                [line |-> "Epoch", epoch |-> epoch_i, mean_of |-> Len(x_0_train)]

C9_Witness ==
    /\ pc = "test_report" /\ epoch_i = 3
    /\ Lines(output) = ExpectedOutput(2) \o <<<<"Epoch", 3>>>>

\* C10: no step of a test pass changes the model, the optimizer, the
\* gradients or epoch_loss, and none is a zero_grad, a backward or an
\* optimizer step.
C10_TestDoesNotTrain ==
    [][ InTestPass =>
          /\ model' = model /\ opt' = opt /\ grad' = grad
          /\ epoch_loss' = epoch_loss
          /\ calls'.zero_grad = calls.zero_grad
          /\ calls'.backward = calls.backward
          /\ calls'.step = calls.step ]_vars

C10_Witness ==
    /\ pc = "epoch_end" /\ calls.test_forward >= 2
    /\ y_hat.requires_grad = FALSE /\ ops = <<"forward", "loss">>

====
